---- MODULE Spec2Model ----
(***************************************************************************)
(* FalAPIFluxNode (modules/fal_flux_node.py): construction of the node,    *)
(* and generate() as the sequence validate -> build arguments -> submit -> *)
(* check images -> one loop iteration per image descriptor -> return/raise.*)
(*                                                                         *)
(* Python values are written as follows.  None is the string "<None>".     *)
(* A byte buffer or numpy array is a record [shape, pat]: shape is the     *)
(* numpy shape and pat a period of the flat (row-major) contents, so that  *)
(* flat element k (from 0) is pat[(k % Len(pat)) + 1].  A float array that  *)
(* results from x / 255.0 keeps the numerators in pat and 255 in den.       *)
(***************************************************************************)
EXTENDS Integers, Sequences, FiniteSets, TLC

VARIABLES
    config,         \* the config.ini the constructor finds
    pc,             \* position of the program
    api_key,        \* self.api_key
    env,            \* os.environ['FAL_KEY']
    req,            \* parameters of the running generate() call
    arguments,      \* the local `arguments` (the request payload)
    submits,        \* payloads handed to fal_client.submit during this call
    result,         \* the local `result`
    index,          \* descriptors of result["images"] the loop has consumed
    output_images,  \* the local `output_images`
    origin,         \* for each output image, the index of its descriptor
    fetches,        \* indexes for which requests.get was called, in call order
    error,          \* the exception that left the constructor or generate()
    returned        \* whether generate() returned, and what

vars == <<config, pc, api_key, env, req, arguments, submits, result, index,
          output_images, origin, fetches, error, returned>>

----------------------------------------------------------------------------
(* Bounds of the model *)

\* longest list of arbitrary image descriptors in a response
MaxImages == 3

(* Program constants *)

\* range(1, 6): lora_1 .. lora_5
LoraSlots == 5
\* "num_images": max 4
MaxNumImages == 4
\* img_np.shape == (1024,)
RawLen == 1024
\* img_np.reshape(32, 32)
Side == 32
\* ... * 255 and / 255.0
Scale == 255

----------------------------------------------------------------------------
(* Python values *)

None == "<None>"
NoError == [type |-> "none", text |-> "", orig |-> ""]
NotReturned == [done |-> FALSE, images |-> <<>>]
NoRequest == [given |-> FALSE]
NoArguments == [built |-> FALSE]
NoResult == [received |-> FALSE]

\* truth value of a str-or-None: None and "" are falsy
Truthy(s) == s # None /\ s # ""

\* the config.ini files the constructor may find
Configs == {"absent", "no_section", "empty_key", "key"}

\* configparser: config.get('falai', 'api_key', fallback=None)
ConfigGet(c) ==
    CASE c = "no_section" -> None
      [] c = "empty_key"  -> ""
      [] c = "key"        -> "sk-1"

get_api_key(c) ==
    IF c # "absent" THEN ConfigGet(c) ELSE None

\* os.environ[k] = v accepts a str only; anything else is a TypeError
EnvironAccepts(v) == v # None

----------------------------------------------------------------------------
(* __init__ *)

Init ==
    /\ config \in Configs
    /\ pc = "new"
    /\ api_key = None
    /\ env = None
    /\ req = NoRequest
    /\ arguments = NoArguments
    /\ submits = 0
    /\ result = NoResult
    /\ index = 0
    /\ output_images = <<>>
    /\ origin = <<>>
    /\ fetches = <<>>
    /\ error = NoError
    /\ returned = NotReturned

Construct ==
    /\ pc = "new"
    /\ api_key' = get_api_key(config)
    /\ IF EnvironAccepts(api_key')
         THEN /\ env' = api_key'
              /\ pc' = "idle"
              /\ error' = NoError
         ELSE /\ env' = env
              /\ pc' = "ctor_failed"
              /\ error' = [type |-> "TypeError", text |-> "environ", orig |-> ""]
    /\ UNCHANGED <<config, req, arguments, submits, result, index,
                   output_images, origin, fetches, returned>>

----------------------------------------------------------------------------
(* generate(): the request and the payload (lines 54-77) *)

\* values a lora_i keyword may carry: absent/None, an empty config, a config
EmptyLora == "{}"
LoraValues == {None, EmptyLora, "A", "B"}
LoraTruthy(v) == v # None /\ v # EmptyLora

NoSeed == [some |-> FALSE, val |-> 0]
Seed(n) == [some |-> TRUE, val |-> n]
SeedValues == {NoSeed, Seed(0), Seed(42)}

CoreParams ==
    { [prompt |-> "a cat", image_size |-> "square_hd",
       num_inference_steps |-> 28, guidance_scale |-> 35, num_images |-> 1],
      [prompt |-> "", image_size |-> "landscape_16_9",
       num_inference_steps |-> 100, guidance_scale |-> 200,
       num_images |-> MaxNumImages] }

Requests ==
    { [given |-> TRUE, core |-> c, seed |-> s, kwargs |-> k] :
        c \in CoreParams, s \in SeedValues, k \in [1..LoraSlots -> LoraValues] }

\* a seed sent whenever one is given
SeedIncludedIfGiven(seed) == seed.some

\* if seed is not None and seed != 0
SeedIncluded(seed) == seed.some /\ seed.val # 0

\* for i in range(1, 6): lora_config = kwargs.get(...); if lora_config: append
RECURSIVE CollectLoras(_, _, _)
CollectLoras(kwargs, i, lora_list) ==
    IF i > LoraSlots THEN lora_list
    ELSE CollectLoras(kwargs, i + 1,
                      IF LoraTruthy(kwargs[i]) THEN Append(lora_list, kwargs[i])
                      ELSE lora_list)

BaseArguments(r) ==
    ("prompt" :> r.core.prompt) @@
    ("image_size" :> r.core.image_size) @@
    ("num_inference_steps" :> r.core.num_inference_steps) @@
    ("guidance_scale" :> r.core.guidance_scale) @@
    ("num_images" :> r.core.num_images) @@
    ("enable_safety_checker" :> TRUE)

WithSeed(args, seed) ==
    IF SeedIncluded(seed) THEN ("seed" :> seed.val) @@ args ELSE args

WithLoras(args, lora_list) ==
    IF lora_list # <<>> THEN ("loras" :> lora_list) @@ args ELSE args

BuildArguments(r) ==
    WithLoras(WithSeed(BaseArguments(r), r.seed),
              CollectLoras(r.kwargs, 1, <<>>))

\* a call of generate() by the host
Call ==
    /\ pc = "idle"
    /\ \E r \in Requests : req' = r
    /\ pc' = "validate"
    /\ UNCHANGED <<config, api_key, env, arguments, submits, result, index,
                   output_images, origin, fetches, error, returned>>

\* lines 55-56
Validate ==
    /\ pc = "validate"
    /\ IF ~Truthy(api_key)
         THEN /\ pc' = "done"
              /\ error' = [type |-> "ValueError", text |-> "API key is not set",
                           orig |-> ""]
         ELSE /\ pc' = "build"
              /\ error' = error
    /\ UNCHANGED <<config, api_key, env, req, arguments, submits, result, index,
                   output_images, origin, fetches, returned>>

\* lines 58-79
Build ==
    /\ pc = "build"
    /\ arguments' = [built |-> TRUE, dict |-> BuildArguments(req)]
    /\ pc' = "submit"
    /\ UNCHANGED <<config, api_key, env, req, submits, result, index,
                   output_images, origin, fetches, error, returned>>

----------------------------------------------------------------------------
(* Bytes, arrays and images (lines 128-160) *)

\* Bytes as they reach line 128.  fmt says what PIL makes of them: "encoded"
\* is a file Image.open identifies and can load (its mode, size and pixels
\* follow), "truncated" one it identifies but cannot load, "raw" one it
\* does not identify.  shape and pat give the bytes of a raw buffer; for the
\* other two pat holds the decoded pixel samples, row-major.
Encoded(mode, w, h, pat) ==
    [fmt |-> "encoded", mode |-> mode, w |-> w, h |-> h, shape |-> <<0>>,
     pat |-> pat]
Truncated ==
    [fmt |-> "truncated", mode |-> "RGB", w |-> 1, h |-> 1, shape |-> <<0>>,
     pat |-> <<>>]
Raw(n, pat) ==
    [fmt |-> "raw", mode |-> "-", w |-> 0, h |-> 0, shape |-> <<n>>,
     pat |-> pat]
NoBytes == Raw(0, <<>>)

PngRGB == Encoded("RGB", 2, 1, <<255, 0, 0, 0, 128, 255>>)
PngL == Encoded("L", 1, 2, <<0, 200>>)
RawEmpty == Raw(0, <<>>)
RawShort == Raw(3, <<10, 20, 30>>)
RawShortConst == Raw(2, <<20>>)
RawExact == Raw(RawLen, <<10, 30, 20, 30>>)
RawExactConst == Raw(RawLen, <<20>>)

Buffers == {PngRGB, PngL, Truncated, RawEmpty, RawShort, RawShortConst,
            RawExact, RawExactConst}

\* what a uint8 cast of NaN may give (the result is not defined by numpy)
NanCast == {0, 255}

RECURSIVE Product(_)
Product(shape) ==
    IF shape = <<>> THEN 1 ELSE Head(shape) * Product(Tail(shape))

\* flat element k (from 0) of an array
Flat(a, k) == a.pat[(k % Len(a.pat)) + 1]

Range(f) == {f[i] : i \in DOMAIN f}
MinOf(S) == CHOOSE x \in S : \A y \in S : x <= y
MaxOf(S) == CHOOSE x \in S : \A y \in S : y <= x

\* np.frombuffer(img_data, dtype=np.uint8): always one-dimensional
FromBuffer(b) == [shape |-> b.shape, pat |-> b.pat]

\* no reshaping at all
ReshapeNothing(a) == a

\* lines 141-144
Reshape(a) ==
    IF a.shape = <<RawLen>> THEN [a EXCEPT !.shape = <<Side, Side>>]
    ELSE IF a.shape = <<1, 1, RawLen>> THEN [a EXCEPT !.shape = <<Side, Side>>]
    ELSE a

\* line 147 on a non-empty array: (a - min) / (max - min) * 255 as uint8.
\* With max = min every element is 0/0 = NaN, whose cast is `nan_cast`.
Normalize(a, nan_cast) ==
    LET lo == MinOf(Range(a.pat))
        hi == MaxOf(Range(a.pat))
    IN [a EXCEPT !.pat =
          [i \in DOMAIN a.pat |->
             IF hi = lo THEN nan_cast
             ELSE (((a.pat[i] - lo) * Scale) \div (hi - lo)) % 256]]

\* Image.fromarray(a, 'L'): at most two dimensions; a one-dimensional array
\* of n samples is an image of width 1 and height n
FromArrayAccepts(a) == Len(a.shape) <= 2
FromArrayL(a) ==
    [mode |-> "L",
     w |-> IF Len(a.shape) = 1 THEN 1 ELSE a.shape[2],
     h |-> a.shape[1],
     pat |-> a.pat]

\* Image.open on an identified file (lazy: nothing is decoded yet)
ImageOpen(b) == [mode |-> b.mode, w |-> b.w, h |-> b.h, pat |-> b.pat]

RECURSIVE Triple(_)
Triple(s) ==
    IF s = <<>> THEN <<>>
    ELSE <<Head(s), Head(s), Head(s)>> \o Triple(Tail(s))

\* img.convert('RGB')
ConvertRGB(img) ==
    IF img.mode = "L" THEN [img EXCEPT !.mode = "RGB", !.pat = Triple(img.pat)]
    ELSE [img EXCEPT !.mode = "RGB"]

\* an image left in its own mode
EnsureRGBSkipped(img) == img

\* lines 153-154
EnsureRGB(img) == IF img.mode # "RGB" THEN ConvertRGB(img) ELSE img

\* lines 157-160: np.array(img).astype(np.float32) / 255.0; the array of an
\* RGB image has shape (h, w, 3), that of an L image (h, w)
ToTensor(img) ==
    [shape |-> IF img.mode = "RGB" THEN <<img.h, img.w, 3>> ELSE <<img.h, img.w>>,
     pat |-> img.pat, den |-> Scale]

NoTensor == [shape |-> <<>>, pat |-> <<>>, den |-> Scale]

----------------------------------------------------------------------------
(* Image descriptors and the body of the loop (lines 100-164) *)

\* url: type is the Python type of img_info["url"]; text is "" for an empty
\* str; data_image is img_url.startswith("data:image"); comma says whether
\* the URL holds a ","; b64 whether base64.b64decode accepts what follows
\* it; fetch_ok whether requests.get and raise_for_status succeed; body the
\* bytes the data URI decodes to, or the body of the HTTP response.
Url(type, text, data_image, comma, b64, fetch_ok, body) ==
    [type |-> type, text |-> text, data_image |-> data_image,
     comma |-> comma, b64 |-> b64, fetch_ok |-> fetch_ok, body |-> body]
NoUrl == Url("str", "", FALSE, FALSE, FALSE, FALSE, NoBytes)

Info(is_dict, has_url, url) ==
    [is_dict |-> is_dict, has_url |-> has_url, url |-> url]

NotADict == Info(FALSE, FALSE, NoUrl)
MissingUrl == Info(TRUE, FALSE, NoUrl)
EmptyUrl == Info(TRUE, TRUE, NoUrl)
IntUrl == Info(TRUE, TRUE, Url("int", "7", FALSE, FALSE, FALSE, FALSE, NoBytes))
DataNoComma ==
    Info(TRUE, TRUE, Url("str", "data:image/png", TRUE, FALSE, FALSE, FALSE, NoBytes))
DataBadBase64 ==
    Info(TRUE, TRUE, Url("str", "data:image/png;base64,A", TRUE, TRUE, FALSE, FALSE, NoBytes))
DataUri(b) ==
    Info(TRUE, TRUE, Url("str", "data:image/png;base64,...", TRUE, TRUE, TRUE, FALSE, b))
HttpDown ==
    Info(TRUE, TRUE, Url("str", "https://down", FALSE, FALSE, FALSE, FALSE, NoBytes))
HttpUrl(b) ==
    Info(TRUE, TRUE, Url("str", "https://ok", FALSE, FALSE, FALSE, TRUE, b))

\* data-URI descriptors of images PIL decodes
ValidDataDescriptors == {DataUri(PngRGB), DataUri(PngL)}

Descriptors ==
    {NotADict, MissingUrl, EmptyUrl, IntUrl, DataNoComma, DataBadBase64,
     HttpDown, HttpUrl(PngRGB), HttpUrl(RawShort)}
    \cup {DataUri(b) : b \in Buffers}

\* not img_info["url"]
UrlFalsy(u) == u.type = "str" /\ u.text = ""

\* line 102
InvalidInfo(d) == ~d.is_dict \/ ~d.has_url \/ UrlFalsy(d.url)

\* What one iteration did: "tensor" (line 162 appended), "skipped" (one of
\* the `continue` statements), "caught" (the except clause of line 163).
Appended(t, fetched) == [kind |-> "tensor", tensor |-> t, fetched |-> fetched]
Skipped(fetched) == [kind |-> "skipped", tensor |-> NoTensor, fetched |-> fetched]
Caught(fetched) == [kind |-> "caught", tensor |-> NoTensor, fetched |-> fetched]

\* lines 136-150: the bytes are not an image file
Fallback(b, fetched, nan_cast) ==
    LET img_np == Reshape(FromBuffer(b))
    IN IF Product(img_np.shape) = 0
         THEN Caught(fetched)                 \* img_np.min() of an empty array
       ELSE IF ~FromArrayAccepts(img_np)
         THEN Caught(fetched)
       ELSE Appended(ToTensor(EnsureRGB(ConvertRGB(
                FromArrayL(Normalize(img_np, nan_cast))))), fetched)

\* lines 128-162
DecodeBytes(b, fetched, nan_cast) ==
    IF b.fmt = "raw" THEN Fallback(b, fetched, nan_cast)
    ELSE IF b.fmt = "truncated" THEN Caught(fetched)   \* loading the file fails
    ELSE Appended(ToTensor(EnsureRGB(ImageOpen(b))), fetched)

\* lines 109-125
ReadUrl(u, nan_cast) ==
    IF u.data_image
      THEN IF ~u.comma \/ ~u.b64 THEN Skipped(FALSE)
           ELSE DecodeBytes(u.body, FALSE, nan_cast)
      ELSE IF ~u.fetch_ok THEN Skipped(TRUE)
           ELSE DecodeBytes(u.body, TRUE, nan_cast)

\* lines 100-164: one iteration of the loop
ProcessImage(d, nan_cast) ==
    IF InvalidInfo(d) THEN Skipped(FALSE)
    ELSE IF d.url.type # "str" THEN Caught(FALSE)      \* img_url[:100]
    ELSE ReadUrl(d.url, nan_cast)

----------------------------------------------------------------------------
(* generate(): submission (lines 81-92) *)

\* exceptions fal_client.submit or handler.get may raise: without a
\* `response` attribute, with one that has a `text`, with one that has none
\* (response = None)
Exceptions ==
    { [msg |-> "timed out", has_response |-> FALSE, has_text |-> FALSE],
      [msg |-> "422", has_response |-> TRUE, has_text |-> TRUE],
      [msg |-> "connection refused", has_response |-> TRUE, has_text |-> FALSE] }

\* lines 88-92: what leaves the except clause
SubmitHandler(e) ==
    IF e.has_response /\ ~e.has_text
      THEN [type |-> "AttributeError", text |-> "text", orig |-> ""]
      ELSE [type |-> "RuntimeError",
            text |-> "An error occurred when calling the fal.ai API",
            orig |-> e.msg]

SeqsUpTo(S, n) == UNION {[1..k -> S] : k \in 0..n}

\* lists of image descriptors a response may hold: any descriptors up to
\* MaxImages, and the well-formed answers to num_images = 1..4
ImageLists ==
    SeqsUpTo(Descriptors, MaxImages)
    \cup SeqsUpTo(ValidDataDescriptors, MaxNumImages)

Response(key, images) ==
    [received |-> TRUE, images_key |-> key, images |-> images]

\* results of handler.get(): no "images" key, "images": null, "images": [...]
Responses ==
    {Response("missing", <<>>), Response("null", <<>>)}
    \cup {Response("list", l) : l \in ImageLists}

\* lines 82-85: fal_client.submit(...).  req and arguments are not read
\* after this call and are dropped here.
Submit ==
    /\ pc = "submit"
    /\ submits' = submits + 1
    /\ req' = NoRequest
    /\ arguments' = NoArguments
    /\ pc' = "get"
    /\ UNCHANGED <<config, api_key, env, result, index, output_images, origin,
                   fetches, error, returned>>

SubmitFails ==
    /\ pc = "submit"
    /\ submits' = submits + 1
    /\ req' = NoRequest
    /\ arguments' = NoArguments
    /\ \E e \in Exceptions : error' = SubmitHandler(e)
    /\ pc' = "done"
    /\ UNCHANGED <<config, api_key, env, result, index, output_images, origin,
                   fetches, returned>>

\* lines 86-87: handler.get()
Get ==
    /\ pc = "get"
    /\ \E r \in Responses : result' = r
    /\ pc' = "check"
    /\ UNCHANGED <<config, api_key, env, req, arguments, submits, index,
                   output_images, origin, fetches, error, returned>>

GetFails ==
    /\ pc = "get"
    /\ \E e \in Exceptions : error' = SubmitHandler(e)
    /\ pc' = "done"
    /\ UNCHANGED <<config, api_key, env, req, arguments, submits, result, index,
                   output_images, origin, fetches, returned>>

----------------------------------------------------------------------------
(* generate(): the images (lines 94-171) *)

\* a check of the key alone
NoImagesKeyOnly(r) == r.images_key # "list"

\* "images" not in result or not result["images"]
NoImages(r) == r.images_key # "list" \/ r.images = <<>>

\* lines 94-98
CheckImages ==
    /\ pc = "check"
    /\ IF NoImages(result)
         THEN /\ pc' = "done"
              /\ error' = [type |-> "RuntimeError",
                           text |-> "No images were generated by the API.",
                           orig |-> ""]
         ELSE /\ pc' = "loop"
              /\ error' = error
    /\ output_images' = <<>>
    /\ UNCHANGED <<config, api_key, env, req, arguments, submits, result, index,
                   origin, fetches, returned>>

\* a list built at the front
PrependImage(list, x) == <<x>> \o list

\* output_images.append(img_tensor)
AppendImage(list, x) == Append(list, x)

\* a loop that stops at the first descriptor it drops
NextIndexBreak(i, o, n) == IF o.kind = "tensor" THEN i + 1 ELSE n

\* a loop that tries a failed download again
NextIndexRetry(i, o, n) == IF o.kind = "skipped" /\ o.fetched THEN i ELSE i + 1

\* enumerate(): the index of the next descriptor after one iteration that
\* ended with outcome o, in a list of n
NextIndex(i, o, n) == i + 1

\* lines 99-164: one iteration
LoopStep ==
    /\ pc = "loop"
    /\ index < Len(result.images)
    /\ \E nan_cast \in NanCast :
         LET o == ProcessImage(result.images[index + 1], nan_cast)
         IN /\ output_images' =
                 IF o.kind = "tensor" THEN AppendImage(output_images, o.tensor)
                 ELSE output_images
            /\ origin' =
                 IF o.kind = "tensor" THEN AppendImage(origin, index + 1)
                 ELSE origin
            /\ fetches' = IF o.fetched THEN Append(fetches, index + 1) ELSE fetches
            /\ index' = NextIndex(index, o, Len(result.images))
    /\ UNCHANGED <<config, pc, api_key, env, req, arguments, submits, result,
                   error, returned>>

\* lines 166-171
Finish ==
    /\ pc = "loop"
    /\ index >= Len(result.images)
    /\ pc' = "done"
    /\ IF output_images = <<>>
         THEN /\ error' = [type |-> "RuntimeError",
                           text |-> "Failed to process any of the generated images.",
                           orig |-> ""]
              /\ returned' = returned
         ELSE /\ error' = error
              /\ returned' = [done |-> TRUE, images |-> output_images]
    /\ UNCHANGED <<config, api_key, env, req, arguments, submits, result, index,
                   output_images, origin, fetches>>

\* generate() has returned or raised: its frame is gone and the node is
\* ready for the host's next call
Exit ==
    /\ pc = "done"
    /\ pc' = "idle"
    /\ req' = NoRequest
    /\ arguments' = NoArguments
    /\ submits' = 0
    /\ result' = NoResult
    /\ index' = 0
    /\ output_images' = <<>>
    /\ origin' = <<>>
    /\ fetches' = <<>>
    /\ error' = NoError
    /\ returned' = NotReturned
    /\ UNCHANGED <<config, api_key, env>>

----------------------------------------------------------------------------

Next ==
    \/ Construct
    \/ Call
    \/ Validate
    \/ Build
    \/ Submit
    \/ SubmitFails
    \/ Get
    \/ GetFails
    \/ CheckImages
    \/ LoopStep
    \/ Finish
    \/ Exit

Spec == Init /\ [][Next]_vars

----------------------------------------------------------------------------
(* Vocabulary of the properties *)

\* a response without images: no "images" entry, a null one, an empty list
EmptyResponse(r) == r.images_key \in {"missing", "null"} \/ r.images = <<>>

\* the call reached the loop over result["images"]
InLoop == pc \in {"loop", "done"} /\ result.received /\ ~EmptyResponse(result)

\* the bytes of descriptor d reach line 128
BytesReached(d) ==
    /\ d.is_dict /\ d.has_url /\ d.url.type = "str" /\ d.url.text # ""
    /\ IF d.url.data_image THEN d.url.comma /\ d.url.b64 ELSE d.url.fetch_ok

\* handling descriptor d fails: the descriptor is malformed or has no URL,
\* its data URI cannot be split or decoded, its download fails, or its bytes
\* are a file that cannot be loaded or an empty buffer
HandlingFails(d) ==
    \/ ~BytesReached(d)
    \/ d.url.body.fmt = "truncated"
    \/ d.url.body.fmt = "raw" /\ d.url.body.shape = <<0>>

\* the output images that came from descriptor i
OutputsOf(i) == {j \in DOMAIN origin : origin[j] = i}

ApiError(e) == e.type = "RuntimeError" /\ e.orig # ""
NoImagesError(e) ==
    e.type = "RuntimeError" /\ e.text = "No images were generated by the API."
NoneProcessedError(e) ==
    e.type = "RuntimeError"
    /\ e.text = "Failed to process any of the generated images."

----------------------------------------------------------------------------
C4_NeverEmpty ==
    /\ returned.done => Len(returned.images) >= 1
    /\ (pc = "done" /\ result.received) =>
         IF EmptyResponse(result)
           THEN NoImagesError(error) /\ ~returned.done
         ELSE IF \A i \in DOMAIN result.images : HandlingFails(result.images[i])
           THEN NoneProcessedError(error) /\ ~returned.done
         ELSE error = NoError /\ returned.done /\ Len(returned.images) >= 1

\* descriptors were received, none survived, the call raised
C4_Witness ==
    /\ pc = "done" /\ result.received
    /\ Len(result.images) = 2
    /\ NoneProcessedError(error)
    /\ ~returned.done

(* C5: the returned sequence is an order-preserving subsequence of the    *)
(* response's image list: the descriptors of the returned tensors have     *)
(* strictly increasing positions (so none contributes twice), and each     *)
(* tensor is the one its descriptor decodes to.                            *)
C5_OrderPreserved ==
    returned.done =>
      /\ Len(returned.images) = Len(origin)
      /\ \A j \in DOMAIN origin : origin[j] \in DOMAIN result.images
      /\ \A j, k \in DOMAIN origin : j < k => origin[j] < origin[k]
      /\ \A j \in DOMAIN origin :
           \E c \in NanCast :
             returned.images[j] = ProcessImage(result.images[origin[j]], c).tensor

\* two different images returned around a dropped descriptor
C5_Witness ==
    /\ returned.done
    /\ origin = <<1, 3>>
    /\ returned.images[1] # returned.images[2]

(* C6: the payload handed to fal_client.submit holds the five core        *)
(* parameters unchanged and enable_safety_checker = TRUE; "seed" exactly   *)
(* when a seed is given and is not 0, with its value; "loras" exactly when *)
(* some lora_i is non-empty, holding the non-empty slots in slot order.    *)
CoreKeys ==
    {"prompt", "image_size", "num_inference_steps", "guidance_scale",
     "num_images", "enable_safety_checker"}

NonEmptyLora(v) == v \notin {None, EmptyLora}

C6_Payload ==
    pc = "submit" =>
      LET a == arguments.dict
          slots == [i \in 1..LoraSlots |-> req.kwargs[i]]
          seeded == req.seed.some /\ req.seed.val # 0
          lorad == \E i \in 1..LoraSlots : NonEmptyLora(req.kwargs[i])
      IN /\ arguments.built
         /\ DOMAIN a = CoreKeys \cup (IF seeded THEN {"seed"} ELSE {})
                                \cup (IF lorad THEN {"loras"} ELSE {})
         /\ a["prompt"] = req.core.prompt
         /\ a["image_size"] = req.core.image_size
         /\ a["num_inference_steps"] = req.core.num_inference_steps
         /\ a["guidance_scale"] = req.core.guidance_scale
         /\ a["num_images"] = req.core.num_images
         /\ a["enable_safety_checker"] = TRUE
         /\ seeded => a["seed"] = req.seed.val
         /\ lorad => a["loras"] = SelectSeq(slots, NonEmptyLora)

\* lora_1 and lora_3 set, an empty config in lora_2, seed 42
C6_Witness ==
    /\ pc = "submit"
    /\ req.kwargs = <<"A", EmptyLora, "B", None, None>>
    /\ req.seed = Seed(42)
    /\ arguments.dict["loras"] = <<"A", "B">>
    /\ arguments.dict["seed"] = 42

(* C8: a response of n = 1..4 valid data-URI images is answered by        *)
(* exactly n tensors, each of shape (H, W, 3) for the H and W of its image *)
(* with H*W*3 values, all in [0, 1], and no HTTP GET is made.              *)
AllValidData ==
    /\ result.received /\ result.images_key = "list"
    /\ Len(result.images) \in 1..MaxNumImages
    /\ \A i \in DOMAIN result.images :
         LET d == result.images[i]
         IN /\ BytesReached(d) /\ d.url.data_image
            /\ d.url.body.fmt = "encoded"

C8_ValidDataUris ==
    (pc = "done" /\ AllValidData) =>
      /\ returned.done /\ error = NoError
      /\ Len(returned.images) = Len(result.images)
      /\ fetches = <<>>
      /\ \A i \in DOMAIN returned.images :
           LET t == returned.images[i]
               b == result.images[i].url.body
           IN /\ t.shape = <<b.h, b.w, 3>>
              /\ Len(t.pat) = b.h * b.w * 3
              /\ \A k \in DOMAIN t.pat : 0 <= t.pat[k] /\ t.pat[k] <= t.den

\* four data-URI images, of both modes, give four tensors
C8_Witness ==
    /\ pc = "done" /\ AllValidData
    /\ Len(result.images) = MaxNumImages
    /\ result.images[1] = DataUri(PngL)
    /\ result.images[4] = DataUri(PngRGB)
    /\ Len(returned.images) = MaxNumImages

(* C9: bytes that are no image file and have flat length exactly 1024 give *)
(* one output image of shape (32, 32, 3): a grayscale image (three equal   *)
(* channels) of the bytes in their order, min-max normalised onto 0..255   *)
(* (the smallest byte 0, the largest 255, order kept) when they are not    *)
(* all equal.                                                              *)
IsRawExact(d) ==
    BytesReached(d) /\ d.url.body.fmt = "raw" /\ d.url.body.shape = <<1024>>

C9_RawFallback ==
    InLoop =>
      \A i \in 1..index :
        IsRawExact(result.images[i]) =>
          /\ Cardinality(OutputsOf(i)) = 1
          /\ \A j \in OutputsOf(i) :
               LET t == output_images[j]
                   b == result.images[i].url.body
                   n == Len(b.pat)
               IN /\ t.shape = <<32, 32, 3>>
                  /\ Len(t.pat) = 3 * n
                  /\ \A k \in 1..n :
                       /\ t.pat[3*k - 2] = t.pat[3*k - 1]
                       /\ t.pat[3*k - 1] = t.pat[3*k]
                       /\ 0 <= t.pat[3*k] /\ t.pat[3*k] <= 255
                  /\ (\E k, l \in 1..n : b.pat[k] # b.pat[l]) =>
                       /\ \E k \in 1..n : t.pat[3*k] = 0
                       /\ \E k \in 1..n : t.pat[3*k] = 255
                       /\ \A k, l \in 1..n :
                            b.pat[k] <= b.pat[l] => t.pat[3*k] <= t.pat[3*l]

\* a 1024-byte buffer of unequal bytes came back as an image
C9_Witness ==
    /\ returned.done
    /\ \E j \in DOMAIN origin :
         /\ result.images[origin[j]] = DataUri(RawExact)
         /\ returned.images[j].shape = <<32, 32, 3>>

(* C10: a call is the linear sequence validate, submit, decode each,       *)
(* return or raise.  fal_client.submit is called at most once, and never   *)
(* without a credential; an HTTP GET is made only in the loop, after the   *)
(* one submission answered with a non-empty image list, for descriptors in *)
(* response order and at most once for each; a call in progress always has *)
(* a next step, and a finished call has either returned or raised.         *)
HasNextStep ==
    /\ pc = "validate" => ENABLED Validate
    /\ pc = "build" => ENABLED Build
    /\ pc = "submit" => ENABLED (Submit \/ SubmitFails)
    /\ pc = "get" => ENABLED (Get \/ GetFails)
    /\ pc = "check" => ENABLED CheckImages
    /\ pc = "loop" => index \in 0..Len(result.images)

C10_LinearSequence ==
    /\ submits <= 1
    /\ ~Truthy(api_key) => submits = 0
    /\ pc \in {"get", "check", "loop"} => submits = 1
    /\ result.received => submits = 1
    /\ fetches # <<>> => InLoop /\ submits = 1
    /\ \A j \in DOMAIN fetches : fetches[j] \in 1..index
    /\ \A j, k \in DOMAIN fetches : j < k => fetches[j] < fetches[k]
    /\ pc \in {"validate", "build", "submit", "get", "check", "loop"} =>
         /\ HasNextStep
         /\ ~returned.done /\ error = NoError
    /\ pc = "done" => (returned.done <=> error = NoError)

\* a call that fetched its first and third descriptor and returned
C10_Witness ==
    /\ pc = "done" /\ returned.done
    /\ submits = 1
    /\ fetches = <<1, 3>>

----------------------------------------------------------------------------
(* Statements the code does not satisfy *)

(* C2: a missing credential (no config file, or a file without the entry)  *)
(* never makes construction fail; the failure is generate()'s ValueError,  *)
(* raised before anything else is done.                                    *)
C2_ConstructionSucceeds ==
    /\ (pc # "new" /\ config \in {"absent", "no_section"}) => pc # "ctor_failed"
    /\ (pc = "done" /\ ~Truthy(api_key)) =>
         error.type = "ValueError" /\ submits = 0 /\ fetches = <<>>

(* C3: when fal_client.submit or handler.get raises, whatever the          *)
(* exception, generate() ends with the wrapping RuntimeError that carries  *)
(* the original message; nothing is fetched and nothing is returned.       *)
C3_SubmissionWrapped ==
    (pc = "done" /\ submits = 1 /\ ~result.received) =>
      /\ ApiError(error)
      /\ \E e \in Exceptions : error.orig = e.msg
      /\ fetches = <<>> /\ output_images = <<>>
      /\ ~returned.done

(* C7: bytes that are no image file and whose flat length is not 1024 give *)
(* no tensor, and the call goes on.                                        *)
C7_OtherRawDropped ==
    InLoop =>
      /\ pc = "loop" => error = NoError
      /\ \A i \in 1..index :
           LET d == result.images[i]
           IN (BytesReached(d) /\ d.url.body.fmt = "raw"
                 /\ d.url.body.shape # <<1024>>) => OutputsOf(i) = {}

====
